---- MODULE Spec2Model ----
(***************************************************************************)
(* Model of load-testing/locustfile.py: the shared Auth0 token cache, the  *)
(* request generators, the Locust user classes with their tasks and the    *)
(* response classifier, and the test_start / test_stop listeners.          *)
(*                                                                         *)
(* Python values are modelled as follows.  None is the string NoneValue.   *)
(* A dict is a function whose domain is its set of keys.  A decoded JSON   *)
(* value is a record [type, fields]; only type "object" has .get().  A     *)
(* response text is a sequence of characters.  A monetary amount is the    *)
(* number of whole cents of the two-decimal float the code produces.       *)
(* The random module is a pseudo-random generator with state rng; every    *)
(* call of random.choice / uniform / randint reads the state and advances  *)
(* it.                                                                     *)
(***************************************************************************)
EXTENDS Integers, Sequences, FiniteSets, TLC

VARIABLES
    NO_AUTH,              \* line 44
    AUTH0_DOMAIN,         \* line 47 ("" when the variable is not set)
    AUTH0_CLIENT_ID,      \* line 48
    AUTH0_CLIENT_SECRET,  \* line 49
    AUTH0_AUDIENCE,       \* line 50
    cached_token,         \* _cached_token, line 63
    phase,                \* "init", "test_start", "running", "stopped"
    exited,               \* sys.exit was called
    exit_code,            \* its argument
    pc,                   \* position of the start hook (0) and of each user
    ret,                  \* value _get_shared_token returned to each caller
    awaiting,             \* callers blocked in urlopen at line 95
    headers,              \* headers built by each caller
    user_class,           \* class of each spawned user
    token_requests,       \* POSTs sent to https://<domain>/oauth/token
    token_reply,          \* last reply of the identity endpoint
    preload_requests,     \* POSTs sent to /v1/evaluate/rulesets/bulk-load
    preload_reply,        \* reply to the bulk-load request
    warned,               \* "Warning: Could not load rulesets" was printed
    eval_requests,        \* evaluation requests sent by the users
    last_request,         \* the latest evaluation request
    last_response,        \* the response it got
    last_outcome,         \* how the response was classified
    rng,                  \* state of the random module
    gen_seed,             \* rng state the latest generator call started from
    gen_uuid,             \* uuid4 value the latest generator call drew
    generator,            \* name of the latest generator called
    payload               \* the payload it returned

vars == <<NO_AUTH, AUTH0_DOMAIN, AUTH0_CLIENT_ID, AUTH0_CLIENT_SECRET,
          AUTH0_AUDIENCE, cached_token, phase, exited, exit_code, pc, ret,
          awaiting, headers, user_class, token_requests, token_reply,
          preload_requests, preload_reply, warned, eval_requests,
          last_request, last_response, last_outcome, rng, gen_seed, gen_uuid,
          generator, payload>>

configVars == <<NO_AUTH, AUTH0_DOMAIN, AUTH0_CLIENT_ID, AUTH0_CLIENT_SECRET,
                AUTH0_AUDIENCE>>
tokenVars == <<cached_token, ret, awaiting, token_requests, token_reply>>
preloadVars == <<preload_requests, preload_reply, warned>>
trafficVars == <<eval_requests, last_request, last_response, last_outcome>>
genVars == <<rng, gen_seed, gen_uuid, generator, payload>>

----------------------------------------------------------------------------
(* Bounds of the model *)

NumUsers == 2
NumTokens == 2
MaxRequests == 2
MaxUuid == 1
RngModulus == 1024
MaxTextLen == 101

(* Program constants *)

TruncLen == 100

----------------------------------------------------------------------------
(* Python values *)

NoneValue == "None"

Truthy(v) == v \notin {NoneValue, ""}

\* dict.get(key, default)
Get(d, key, default) == IF key \in DOMAIN d THEN d[key] ELSE default

EmptyDict == [k \in {} |-> ""]

Min(a, b) == IF a < b THEN a ELSE b

\* seq[:n]
Prefix(seq, n) == SubSeq(seq, 1, Min(n, Len(seq)))

NotJson == [type |-> "not_json", fields |-> EmptyDict]
JsonArray == [type |-> "array", fields |-> EmptyDict]
JsonNull == [type |-> "null", fields |-> EmptyDict]
JsonObject(f) == [type |-> "object", fields |-> f]

----------------------------------------------------------------------------
(* Processes *)

Hook == 0
Users == 1 .. NumUsers
Procs == {Hook} \cup Users

UserClasses == {"CardFraudUser", "HighVolumeUser", "VelocityTestUser",
                "SteadyStateUser"}

\* The @task methods each class ends up with (inherited ones included).
TasksOf(cls) ==
    CASE cls = "CardFraudUser" -> {"AUTH_evaluation", "MONITORING_evaluation"}
      [] cls = "HighVolumeUser" -> {"AUTH_evaluation", "MONITORING_evaluation"}
      [] cls = "VelocityTestUser" ->
            {"AUTH_evaluation", "MONITORING_evaluation", "velocity_burst"}
      [] cls = "SteadyStateUser" -> {"AUTH_only"}
      [] OTHER -> {}

----------------------------------------------------------------------------
(* The identity endpoint and what _get_shared_token makes of its reply *)

Tokens == {"tok" \o ToString(i) : i \in 1 .. NumTokens}

Settings == {"", "configured"}

TokenBodies ==
    {NotJson, JsonArray, JsonObject(EmptyDict),
     JsonObject("expires_in" :> "3600"),
     JsonObject("access_token" :> "" @@ "expires_in" :> "3600")}
    \cup {JsonObject("access_token" :> t @@ "expires_in" :> "3600") : t \in Tokens}
    \cup {JsonObject("access_token" :> "tok1")}

\* What urlopen does at line 95: it raises URLError (no connection, timeout),
\* raises HTTPError for a status outside 2xx, or returns the response.
IdentityReplies ==
    {[kind |-> "URLError", code |-> 0, body |-> NotJson]}
    \cup {[kind |-> "HTTPError", code |-> c, body |-> b] :
             c \in {401, 500}, b \in {NotJson, JsonObject(EmptyDict)}}
    \cup {[kind |-> "response", code |-> 200, body |-> b] : b \in TokenBodies}

NoReply == [kind |-> "none", code |-> 0, body |-> NotJson]

\* all([AUTH0_DOMAIN, AUTH0_CLIENT_ID, AUTH0_CLIENT_SECRET, AUTH0_AUDIENCE])
Auth0Configured(domain, client_id, client_secret, audience) ==
    /\ domain # ""
    /\ client_id # ""
    /\ client_secret # ""
    /\ audience # ""

\* ReturnsEarly without the test of line 73.
ReturnsEarlyNoCache(no_auth, cached) == no_auth

\* The early returns of _get_shared_token: TRUE when the call returns
\* without going to the identity endpoint.
ReturnsEarly(no_auth, cached) == no_auth \/ cached # NoneValue

EarlyValue(no_auth, cached) == IF no_auth THEN NoneValue ELSE cached

\* FetchResult with the HTTPError handler returning None instead of exiting.
FetchResultSwallow(reply) ==
    IF reply.kind = "HTTPError" THEN [exit |-> FALSE, line |-> 109, token |-> NoneValue]
    ELSE IF reply.kind # "response" THEN [exit |-> TRUE, line |-> 112, token |-> NoneValue]
    ELSE IF reply.body.type # "object" THEN [exit |-> TRUE, line |-> 112, token |-> NoneValue]
    ELSE IF Truthy(Get(reply.body.fields, "access_token", NoneValue))
         THEN [exit |-> FALSE, line |-> 102, token |-> reply.body.fields["access_token"]]
         ELSE [exit |-> TRUE, line |-> 105, token |-> NoneValue]

\* Lines 95-112: the token a reply yields, or the exit it causes.
\*   HTTPError -> line 109; any other exception (URLError, a body json.loads
\*   rejects, a decoded body without .get) -> line 112; no or empty
\*   access_token -> line 105.
FetchResult(reply) ==
    IF reply.kind = "HTTPError" THEN [exit |-> TRUE, line |-> 109, token |-> NoneValue]
    ELSE IF reply.kind # "response" THEN [exit |-> TRUE, line |-> 112, token |-> NoneValue]
    ELSE IF reply.body.type # "object" THEN [exit |-> TRUE, line |-> 112, token |-> NoneValue]
    ELSE IF Truthy(Get(reply.body.fields, "access_token", NoneValue))
         THEN [exit |-> FALSE, line |-> 102, token |-> reply.body.fields["access_token"]]
         ELSE [exit |-> TRUE, line |-> 105, token |-> NoneValue]

\* BuildHeaders without the test of the token.
BuildHeadersAlways(token) ==
    ("Content-Type" :> "application/json" @@ "Authorization" :> ("Bearer " \o token))

\* _get_headers (lines 188-194 and 267-273) and lines 303-306 of the hook.
BuildHeaders(token) ==
    IF Truthy(token)
    THEN ("Content-Type" :> "application/json" @@ "Authorization" :> ("Bearer " \o token))
    ELSE ("Content-Type" :> "application/json")

----------------------------------------------------------------------------
(* The random module *)

\* One step of the pseudo-random generator.
NextRandom(s) == (5 * s + 3) % RngModulus

RECURSIVE Iterate(_, _)
Iterate(s, k) == IF k = 0 THEN s ELSE Iterate(NextRandom(s), k - 1)

\* The generator state k draws after state s (a generator call makes at most
\* 16 draws), tabulated.
AdvanceTable == [s \in 0 .. RngModulus - 1 |-> [k \in 0 .. 16 |-> Iterate(s, k)]]

Advance(s, k) == AdvanceTable[s][k]

\* An integer in 0 .. n-1 out of generator state s.
RandBelow(s, n) == (s * n) \div RngModulus

\* random.choice(pool)
Choice(pool, s) == pool[RandBelow(s, Len(pool)) + 1]

\* random.randint(a, b)
RandInt(a, b, s) == a + RandBelow(s, b - a + 1)

\* random.uniform(lo, hi), lo and hi in whole units, the result in
\* thousandths of a unit.
Uniform(lo, hi, s) == lo * 1000 + (((hi - lo) * 1000 * s) \div RngModulus)

\* round(x, 2): x in thousandths, the result in hundredths (cents), ties
\* going to the even neighbour.
Round2(x) ==
    LET q == x \div 10
        r == x % 10
    IN  IF r < 5 THEN q
        ELSE IF r > 5 THEN q + 1
        ELSE IF q % 2 = 0 THEN q ELSE q + 1

----------------------------------------------------------------------------
(* Test data pools, lines 54-59 *)

CURRENCIES == <<"USD", "GBP", "EUR", "CAD", "AUD", "JPY">>
COUNTRIES == <<"US", "GB", "CA", "DE", "FR", "AU", "JP", "IN", "BR", "MX">>
MERCHANT_CATEGORIES == <<"5411", "5999", "5734", "5812", "5541", "5942", "5912">>
TRANSACTION_TYPES == <<"PURCHASE", "REFUND", "AUTHORIZATION">>
ENTRY_MODES == <<"ECOM", "CHIP", "MAGSTRIPE", "CONTACTLESS", "MANUAL">>

\* f"{i:04d}"
Pad4(i) ==
    IF i < 10 THEN "000" \o ToString(i)
    ELSE IF i < 100 THEN "00" \o ToString(i)
    ELSE IF i < 1000 THEN "0" \o ToString(i)
    ELSE ToString(i)

CARD_HASHES == [i \in 1 .. 100 |-> "card_hash_" \o Pad4(i - 1)]

Range(seq) == {seq[i] : i \in DOMAIN seq}

----------------------------------------------------------------------------
(* Request generators, lines 117-171.  A card bin is its sequence of digits. *)

visa_bins == << <<"4","1","1","1","1","1">>, <<"4","0","0","0","0","0">>,
                <<"4","5","0","0","0","0">> >>
mc_bins == << <<"5","5","5","5","5","5">>, <<"5","2","0","0","0","0">>,
              <<"5","4","0","0","0","0">> >>
amex_bins == << <<"3","4","0","0","0","0">>, <<"3","7","0","0","0","0">> >>

\* str.startswith(c) for a one-character c
StartsWith(str, c) == Len(str) > 0 /\ str[1] = c

generate_transaction_id(uuid) == "txn-" \o ToString(uuid)

generate_card_bin(s) == Choice(visa_bins \o mc_bins \o amex_bins, s)

\* CardNetwork with the two tests in the other order of digits.
CardNetworkSwapped(card_bin) ==
    IF StartsWith(card_bin, "5") THEN "VISA"
    ELSE IF StartsWith(card_bin, "4") THEN "MASTERCARD"
    ELSE "AMEX"

\* Lines 130-133.
CardNetwork(card_bin) ==
    IF StartsWith(card_bin, "4") THEN "VISA"
    ELSE IF StartsWith(card_bin, "5") THEN "MASTERCARD"
    ELSE "AMEX"

\* The random draws are made in the order of the source: the card bin
\* first, then the dict literal top to bottom; draw k reads Advance(s, k).
generate_AUTH_request(s, uuid) ==
    LET card_bin == generate_card_bin(s)
    IN  [transaction_id |-> generate_transaction_id(uuid),
         card_hash |-> Choice(CARD_HASHES, Advance(s, 1)),
         amount |-> Round2(Uniform(10, 2000, Advance(s, 2))),
         currency |-> Choice(CURRENCIES, Advance(s, 3)),
         country_code |-> Choice(COUNTRIES, Advance(s, 4)),
         merchant_id |-> "merch_" \o ToString(RandInt(1000, 9999, Advance(s, 5))),
         merchant_name |-> "Test Merchant " \o ToString(RandInt(1, 100, Advance(s, 6))),
         merchant_category |-> Choice(MERCHANT_CATEGORIES, Advance(s, 7)),
         merchant_category_code |-> Choice(MERCHANT_CATEGORIES, Advance(s, 8)),
         card_present |-> Choice(<<TRUE, FALSE>>, Advance(s, 9)),
         transaction_type |-> Choice(TRANSACTION_TYPES, Advance(s, 10)),
         entry_mode |-> Choice(ENTRY_MODES, Advance(s, 11)),
         ip_address |-> "192.168." \o ToString(RandInt(0, 255, Advance(s, 12)))
                          \o "." \o ToString(RandInt(0, 255, Advance(s, 13))),
         device_id |-> "device_" \o ToString(RandInt(1000, 9999, Advance(s, 14))),
         card_network |-> CardNetwork(card_bin),
         card_bin |-> card_bin]

\* generate_MONITORING_request with the amount range of generate_AUTH_request.
generate_MONITORING_requestWide(s, uuid) ==
    [transaction_id |-> generate_transaction_id(uuid),
     card_hash |-> Choice(CARD_HASHES, s),
     amount |-> Round2(Uniform(10, 2000, Advance(s, 1))),
     currency |-> Choice(CURRENCIES, Advance(s, 2)),
     country_code |-> Choice(COUNTRIES, Advance(s, 3)),
     merchant_id |-> "merch_" \o ToString(RandInt(1000, 9999, Advance(s, 4))),
     merchant_category_code |-> Choice(MERCHANT_CATEGORIES, Advance(s, 5)),
     decision |-> Choice(<<"APPROVE", "DECLINE">>, Advance(s, 6))]

generate_MONITORING_request(s, uuid) ==
    [transaction_id |-> generate_transaction_id(uuid),
     card_hash |-> Choice(CARD_HASHES, s),
     amount |-> Round2(Uniform(10, 500, Advance(s, 1))),
     currency |-> Choice(CURRENCIES, Advance(s, 2)),
     country_code |-> Choice(COUNTRIES, Advance(s, 3)),
     merchant_id |-> "merch_" \o ToString(RandInt(1000, 9999, Advance(s, 4))),
     merchant_category_code |-> Choice(MERCHANT_CATEGORIES, Advance(s, 5)),
     decision |-> Choice(<<"APPROVE", "DECLINE">>, Advance(s, 6))]

generate_velocity_burst_request(s, uuid) ==
    [generate_AUTH_request(s, uuid) EXCEPT
        !.card_hash = "velocity_test_card",
        !.amount = Round2(Uniform(50, 200, Advance(s, 15)))]

Generators == {"AUTH", "MONITORING", "velocity_burst"}

\* The payload generator g returns and the number of random draws it makes.
Generate(g, s, uuid) ==
    CASE g = "AUTH" -> generate_AUTH_request(s, uuid)
      [] g = "MONITORING" -> generate_MONITORING_request(s, uuid)
      [] g = "velocity_burst" -> generate_velocity_burst_request(s, uuid)

Draws(g) ==
    CASE g = "AUTH" -> 15
      [] g = "MONITORING" -> 7
      [] g = "velocity_burst" -> 16

----------------------------------------------------------------------------
(* Responses of the target service and their classification *)

\* A text of n characters, no two neighbours alike.
Text(n) == [i \in 1 .. n |-> ToString(i % 10)]

EngineModes == {"NORMAL", "FAIL_OPEN", "DEGRADED", "SHADOW"}
EngineErrorCodes == {"REDIS_UNAVAILABLE"}

EvalObjects ==
    {JsonObject(EmptyDict)}
    \cup {JsonObject("engine_mode" :> m) : m \in EngineModes}
    \cup {JsonObject("engine_error_code" :> c) : c \in EngineErrorCodes}
    \cup {JsonObject("engine_mode" :> m @@ "engine_error_code" :> c) :
             m \in EngineModes, c \in EngineErrorCodes}

TextLens == {0, TruncLen, MaxTextLen}

\* A body is its text and what response.json() makes of it.
Bodies ==
    {[json |-> o, text |-> <<"{", "}">>] : o \in EvalObjects}
    \cup {[json |-> JsonArray, text |-> <<"[", "]">>],
          [json |-> JsonNull, text |-> <<"n", "u", "l", "l">>]}
    \cup {[json |-> NotJson, text |-> Text(n)] : n \in TextLens}

\* 0 is the status Locust reports when no response arrived.
Statuses == {0, 200, 201, 401, 403, 500}

Responses == [status_code : Statuses, body : Bodies]

\* The response of a target that evaluates normally, the only one the
\* specification of whole runs lets the target give.
SomeResponses ==
    {r \in Responses :
        r.status_code = 200 /\ r.body.json = JsonObject("engine_mode" :> "NORMAL")}

\* The uuid4 values the specifications of whole runs draw from.
SomeUuids == {0}

NoOutcome ==
    [success_calls |-> 0, failure_calls |-> 0, message |-> <<>>,
     raised |-> "", reported |-> "none"]

Success == [NoOutcome EXCEPT !.success_calls = 1, !.reported = "success"]

Failure(msg) ==
    [NoOutcome EXCEPT !.failure_calls = 1, !.message = msg, !.reported = "failure"]

\* An exception leaves the with block of the task: the request is reported
\* neither as a success nor as a failure.
Raised(exc) == [NoOutcome EXCEPT !.raised = exc]

\* ClassifyEngineMode testing for "FAIL_OPEN" only.
ClassifyEngineModeFailOpenOnly(data) ==
    LET mode == Get(data, "engine_mode", "NORMAL")
    IN  IF mode \in {"FAIL_OPEN"}
        THEN Failure(<<mode, ": ", Get(data, "engine_error_code", "UNKNOWN")>>)
        ELSE Success

\* Lines 222-227, data being a decoded JSON object.
ClassifyEngineMode(data) ==
    LET mode == Get(data, "engine_mode", "NORMAL")
    IN  IF mode \in {"FAIL_OPEN", "DEGRADED"}
        THEN Failure(<<mode, ": ", Get(data, "engine_error_code", "UNKNOWN")>>)
        ELSE Success

\* CardFraudUser._handle_response, lines 218-235.
HandleResponse(response) ==
    IF response.status_code = 200
    THEN IF response.body.json.type = "not_json"
         THEN Failure(<<"Invalid JSON response">>)
         ELSE IF response.body.json.type # "object"
         THEN Raised("AttributeError")
         ELSE ClassifyEngineMode(response.body.json.fields)
    ELSE IF response.status_code = 401
    THEN Failure(<<"Auth failed - check JWT_TOKEN or use NO_AUTH=true">>)
    ELSE IF response.status_code = 403
    THEN Failure(<<"Forbidden - check scopes">>)
    ELSE Failure(<<"Status ", ToString(response.status_code), ": ">>
                 \o Prefix(response.body.text, TruncLen))

\* self.client.post without catch_response (lines 277-281): Locust reports
\* the request from the status alone.
DefaultOutcome(response) ==
    IF response.status_code = 0 \/ response.status_code >= 400
    THEN [NoOutcome EXCEPT !.reported = "failure"]
    ELSE [NoOutcome EXCEPT !.reported = "success"]

NoRequest ==
    [user |-> 0, class |-> "none", task |-> "none", endpoint |-> "", name |-> "",
     headers |-> EmptyDict, catch_response |-> FALSE]

NoResponse == [status_code |-> 0, body |-> [json |-> NotJson, text |-> <<>>]]

----------------------------------------------------------------------------
(* _get_shared_token, lines 66-112.  A call runs without interruption up   *)
(* to urlopen (line 95), where the caller blocks until the reply arrives.  *)

\* What a call does before it could block: "return" (lines 70-74), "exit"
\* (lines 76-80) or "fetch" (lines 82-95).
CallOutcome(no_auth, cached, configured) ==
    IF ReturnsEarly(no_auth, cached) THEN "return"
    ELSE IF ~configured THEN "exit"
    ELSE "fetch"

Configured ==
    Auth0Configured(AUTH0_DOMAIN, AUTH0_CLIENT_ID, AUTH0_CLIENT_SECRET, AUTH0_AUDIENCE)

----------------------------------------------------------------------------
(* on_test_start, lines 286-326 *)

PreloadBodies ==
    {NotJson, JsonArray, JsonObject(EmptyDict),
     JsonObject("loaded" :> "2" @@ "requested" :> "2")}

\* What urlopen does at line 319.
PreloadReplies ==
    {[kind |-> "URLError", code |-> 0, body |-> NotJson]}
    \cup {[kind |-> "HTTPError", code |-> c, body |-> NotJson] : c \in {404, 500}}
    \cup {[kind |-> "response", code |-> 200, body |-> b] : b \in PreloadBodies}

\* PreloadResult with a handler that catches URLError only.
PreloadResultNarrow(reply) ==
    [warned |-> reply.kind = "URLError" \/ (reply.kind = "response" /\ reply.body.type # "object"),
     returns |-> reply.kind # "HTTPError"]

\* Lines 319-324: whether the warning is printed, and whether the hook
\* returns (every Exception is caught at line 322).
PreloadResult(reply) ==
    [warned |-> ~(reply.kind = "response" /\ reply.body.type = "object"),
     returns |-> TRUE]

\* The hook from line 302 on, the cache holding `cached`, until it blocks
\* or exits: the call of line 304, then the request of line 319.
HookAt304(cached) ==
    LET o == CallOutcome(NO_AUTH, cached, Configured)
    IN  [pc |-> IF o = "return" THEN "L319" ELSE "L304",
         exits |-> o = "exit",
         fetches |-> o = "fetch",
         sends_preload |-> o = "return",
         token |-> IF o = "return" THEN EarlyValue(NO_AUTH, cached) ELSE NoneValue]

\* The hook from line 298 on.
HookAt298(cached) ==
    LET o == CallOutcome(NO_AUTH, cached, Configured)
    IN  IF NO_AUTH \/ o = "return" THEN HookAt304(cached)
        ELSE [pc |-> "L299", exits |-> o = "exit", fetches |-> o = "fetch",
              sends_preload |-> FALSE, token |-> NoneValue]

\* The hook arrives where h says.
HookMoves(h) ==
    /\ pc' = [pc EXCEPT ![Hook] = h.pc]
    /\ exited' = h.exits
    /\ exit_code' = IF h.exits THEN 1 ELSE exit_code
    /\ token_requests' = token_requests + (IF h.fetches THEN 1 ELSE 0)
    /\ awaiting' = IF h.fetches THEN awaiting \cup {Hook} ELSE awaiting \ {Hook}
    /\ ret' = [ret EXCEPT ![Hook] = h.token]
    /\ preload_requests' = preload_requests + (IF h.sends_preload THEN 1 ELSE 0)
    /\ headers' = IF h.sends_preload
                  THEN [headers EXCEPT ![Hook] = BuildHeaders(h.token)]
                  ELSE headers

on_test_start ==
    /\ phase = "init"
    /\ ~exited
    /\ phase' = "test_start"
    /\ HookMoves(HookAt298(cached_token))
    /\ UNCHANGED <<configVars, cached_token, token_reply, user_class,
                   preload_reply, warned, trafficVars, genVars>>

\* The reply to the token request of caller p arrives: lines 95-112, and on
\* success the caller's code up to its next blocking call.
TokenResponse(p, reply) ==
    /\ ~exited
    /\ p \in awaiting
    /\ token_reply' = reply
    /\ LET r == FetchResult(reply)
       IN  IF r.exit
           THEN /\ exited' = TRUE
                /\ exit_code' = 1
                /\ UNCHANGED <<cached_token, pc, ret, awaiting, headers,
                               token_requests, preload_requests>>
           ELSE /\ cached_token' = r.token
                /\ IF p = Hook
                   THEN IF pc[Hook] = "L299"
                        THEN HookMoves(HookAt304(r.token))
                        ELSE HookMoves([pc |-> "L319", exits |-> FALSE,
                                        fetches |-> FALSE, sends_preload |-> TRUE,
                                        token |-> r.token])
                   ELSE /\ ret' = [ret EXCEPT ![p] = r.token]
                        /\ headers' = [headers EXCEPT ![p] = BuildHeaders(r.token)]
                        /\ pc' = [pc EXCEPT ![p] = "ready"]
                        /\ awaiting' = awaiting \ {p}
                        /\ UNCHANGED <<exited, exit_code, token_requests,
                                       preload_requests>>
    /\ UNCHANGED <<configVars, phase, user_class, preload_reply, warned,
                   trafficVars, genVars>>

\* The reply to the bulk-load request arrives: lines 319-326.
PreloadResponse(reply) ==
    /\ ~exited
    /\ pc[Hook] = "L319"
    /\ preload_reply' = reply
    /\ warned' = PreloadResult(reply).warned
    /\ pc' = [pc EXCEPT ![Hook] = IF PreloadResult(reply).returns THEN "done" ELSE "raised"]
    /\ phase' = "running"
    /\ UNCHANGED <<configVars, tokenVars, exited, exit_code, headers, user_class,
                   preload_requests, trafficVars, genVars>>

\* The runner ends the run: it stops and discards the users, then fires
\* test_stop (lines 329-333, a banner).
on_test_stop ==
    /\ ~exited
    /\ phase = "running"
    /\ awaiting = {}
    /\ phase' = "stopped"
    /\ pc' = [p \in Procs |-> IF p = Hook THEN pc[p] ELSE "stopped"]
    /\ user_class' = [u \in Users |-> "none"]
    /\ headers' = [p \in Procs |-> IF p = Hook THEN headers[p] ELSE EmptyDict]
    /\ ret' = [p \in Procs |-> IF p = Hook THEN ret[p] ELSE NoneValue]
    /\ UNCHANGED <<configVars, cached_token, awaiting, token_requests,
                   token_reply, exited, exit_code, preloadVars, trafficVars,
                   genVars>>

----------------------------------------------------------------------------
(* The user classes, lines 176-281 *)

\* CardFraudUser.__init__ / SteadyStateUser.__init__: the runner creates
\* user u of class cls; _get_headers calls _get_shared_token.
SpawnUser(u, cls) ==
    /\ ~exited
    /\ phase = "running"
    /\ pc[u] = "unspawned"
    /\ user_class' = [user_class EXCEPT ![u] = cls]
    /\ LET o == CallOutcome(NO_AUTH, cached_token, Configured)
           token == EarlyValue(NO_AUTH, cached_token)
       IN  /\ pc' = [pc EXCEPT ![u] = IF o = "return" THEN "ready" ELSE "get_headers"]
           /\ ret' = [ret EXCEPT ![u] = IF o = "return" THEN token ELSE NoneValue]
           /\ headers' = IF o = "return"
                         THEN [headers EXCEPT ![u] = BuildHeaders(token)]
                         ELSE headers
           /\ exited' = (o = "exit")
           /\ exit_code' = IF o = "exit" THEN 1 ELSE exit_code
           /\ token_requests' = token_requests + (IF o = "fetch" THEN 1 ELSE 0)
           /\ awaiting' = IF o = "fetch" THEN awaiting \cup {u} ELSE awaiting
    /\ UNCHANGED <<configVars, cached_token, token_reply, phase, preloadVars,
                   trafficVars, genVars>>

\* A task of user u: the payload of generator g is posted to `endpoint`
\* with the user's headers and the target answers `response`.  With
\* catch_response the task hands the response to _handle_response.
Evaluate(u, task, g, endpoint, name, catch_response, response, uuid) ==
    /\ ~exited
    /\ phase = "running"
    /\ pc[u] = "ready"
    /\ task \in TasksOf(user_class[u])
    /\ eval_requests < MaxRequests
    /\ eval_requests' = eval_requests + 1
    /\ payload' = Generate(g, rng, uuid)
    /\ generator' = g
    /\ gen_seed' = rng
    /\ gen_uuid' = uuid
    /\ rng' = Advance(rng, Draws(g))
    /\ last_request' = [user |-> u, class |-> user_class[u], task |-> task,
                        endpoint |-> endpoint, name |-> name,
                        headers |-> headers[u], catch_response |-> catch_response]
    /\ last_response' = response
    /\ last_outcome' = IF catch_response THEN HandleResponse(response)
                       ELSE DefaultOutcome(response)
    /\ UNCHANGED <<configVars, tokenVars, phase, exited, exit_code, pc, headers,
                   user_class, preloadVars>>

\* Lines 196-205.
AUTH_evaluation(u, response, uuid) ==
    Evaluate(u, "AUTH_evaluation", "AUTH", "/v1/evaluate/auth",
             "/v1/evaluate/auth", TRUE, response, uuid)

\* Lines 207-216.
MONITORING_evaluation(u, response, uuid) ==
    Evaluate(u, "MONITORING_evaluation", "MONITORING", "/v1/evaluate/monitoring",
             "/v1/evaluate/monitoring", TRUE, response, uuid)

\* Lines 247-256.
velocity_burst(u, response, uuid) ==
    Evaluate(u, "velocity_burst", "velocity_burst", "/v1/evaluate/auth",
             "/v1/evaluate/auth [velocity]", TRUE, response, uuid)

\* Lines 275-281.
AUTH_only(u, response, uuid) ==
    Evaluate(u, "AUTH_only", "AUTH", "/v1/evaluate/auth",
             "/v1/evaluate/auth", FALSE, response, uuid)

\* A call of one request generator on its own.
GenerateRequest(g, uuid) ==
    /\ payload' = Generate(g, rng, uuid)
    /\ generator' = g
    /\ gen_seed' = rng
    /\ gen_uuid' = uuid
    /\ rng' = Advance(rng, Draws(g))
    /\ UNCHANGED <<configVars, tokenVars, phase, exited, exit_code, pc, headers,
                   user_class, preloadVars, trafficVars>>

----------------------------------------------------------------------------
(* Initial states *)

Missing(e) ==
    {k \in {"domain", "client_id", "client_secret", "audience"} : e[k] = ""}

\* The environments a run is started in: in JWT mode every Auth0 setting
\* present, one missing, or none present; in no-auth mode, where the
\* settings are only printed, all or none present.
Environments ==
    {e \in [no_auth : BOOLEAN, domain : Settings, client_id : Settings,
            client_secret : Settings, audience : Settings] :
        Cardinality(Missing(e)) \in (IF e.no_auth THEN {0, 4} ELSE {0, 1, 4})}

\* The environment the module reads at import, lines 44-51.
Environment(e) ==
    /\ NO_AUTH = e.no_auth
    /\ AUTH0_DOMAIN = e.domain
    /\ AUTH0_CLIENT_ID = e.client_id
    /\ AUTH0_CLIENT_SECRET = e.client_secret
    /\ AUTH0_AUDIENCE = e.audience

AllConfigured(no_auth) ==
    [no_auth |-> no_auth, domain |-> "configured", client_id |-> "configured",
     client_secret |-> "configured", audience |-> "configured"]

\* No user spawned, no evaluation request sent, no generator called.
NoTraffic ==
    /\ user_class = [u \in Users |-> "none"]
    /\ eval_requests = 0
    /\ last_request = NoRequest
    /\ last_response = NoResponse
    /\ last_outcome = NoOutcome
    /\ gen_seed = 0
    /\ gen_uuid = 0
    /\ generator = "none"
    /\ payload = EmptyDict

\* The module as imported, before the runner does anything (line 63).
Loaded ==
    /\ cached_token = NoneValue
    /\ exited = FALSE
    /\ exit_code = 0
    /\ pc = [p \in Procs |-> IF p = Hook THEN "idle" ELSE "unspawned"]
    /\ ret = [p \in Procs |-> NoneValue]
    /\ awaiting = {}
    /\ headers = [p \in Procs |-> EmptyDict]
    /\ token_requests = 0
    /\ token_reply = NoReply
    /\ preload_requests = 0
    /\ preload_reply = NoReply
    /\ warned = FALSE
    /\ NoTraffic

\* A run of the Locust runner: test_start, then the users, then test_stop.
Init ==
    /\ \E e \in Environments : Environment(e)
    /\ Loaded
    /\ phase = "init"
    /\ rng = 0

Next ==
    \/ on_test_start
    \/ \E p \in Procs, reply \in IdentityReplies : TokenResponse(p, reply)
    \/ \E reply \in PreloadReplies : PreloadResponse(reply)
    \/ \E u \in Users, cls \in UserClasses : SpawnUser(u, cls)
    \/ \E u \in Users, r \in SomeResponses, k \in SomeUuids : AUTH_evaluation(u, r, k)
    \/ \E u \in Users, r \in SomeResponses, k \in SomeUuids : MONITORING_evaluation(u, r, k)
    \/ \E u \in Users, r \in SomeResponses, k \in SomeUuids : velocity_burst(u, r, k)
    \/ \E u \in Users, r \in SomeResponses, k \in SomeUuids : AUTH_only(u, r, k)
    \/ on_test_stop

Spec == Init /\ [][Next]_vars

\* Users created while the cache is empty: the users are driven without a
\* test_start having filled the cache, and their constructors overlap.
InitColdUsers ==
    /\ \E e \in Environments : Environment(e)
    /\ Loaded
    /\ phase = "running"
    /\ rng = 0

NextColdUsers ==
    \/ \E u \in Users, cls \in UserClasses : SpawnUser(u, cls)
    \/ \E u \in Users, reply \in IdentityReplies : TokenResponse(u, reply)

SpecColdUsers == InitColdUsers /\ [][NextColdUsers]_vars

\* The state test_start leaves when the bulk-load succeeded, in no-auth mode
\* or with token t cached, and user 1 spawned with class cls.
SteadyState(no_auth, t, cls) ==
    LET token == IF no_auth THEN NoneValue ELSE t
    IN  /\ Environment(AllConfigured(no_auth))
        /\ cached_token = token
        /\ exited = FALSE
        /\ exit_code = 0
        /\ phase = "running"
        /\ pc = [p \in Procs |-> IF p = Hook THEN "done"
                                 ELSE IF p = 1 THEN "ready" ELSE "unspawned"]
        /\ ret = [p \in Procs |-> IF p \in {Hook, 1} THEN token ELSE NoneValue]
        /\ awaiting = {}
        /\ headers = [p \in Procs |-> IF p \in {Hook, 1} THEN BuildHeaders(token)
                                      ELSE EmptyDict]
        /\ user_class = [u \in Users |-> IF u = 1 THEN cls ELSE "none"]
        /\ token_requests = IF no_auth THEN 0 ELSE 1
        /\ token_reply = IF no_auth THEN NoReply
                         ELSE [kind |-> "response", code |-> 200,
                               body |-> JsonObject("access_token" :> t)]
        /\ preload_requests = 1
        /\ preload_reply = [kind |-> "response", code |-> 200,
                            body |-> JsonObject("loaded" :> "2" @@ "requested" :> "2")]
        /\ warned = FALSE

\* One user of any class in steady state, the target answering anything.
InitTraffic ==
    /\ \E no_auth \in BOOLEAN, cls \in UserClasses : SteadyState(no_auth, "tok1", cls)
    /\ eval_requests = 0
    /\ last_request = NoRequest
    /\ last_response = NoResponse
    /\ last_outcome = NoOutcome
    /\ gen_seed = 0
    /\ gen_uuid = 0
    /\ generator = "none"
    /\ payload = EmptyDict
    /\ rng = 0

NextTraffic ==
    \/ \E u \in Users, r \in Responses, k \in SomeUuids : AUTH_evaluation(u, r, k)
    \/ \E u \in Users, r \in Responses, k \in SomeUuids : MONITORING_evaluation(u, r, k)
    \/ \E u \in Users, r \in Responses, k \in SomeUuids : velocity_burst(u, r, k)
    \/ \E u \in Users, r \in Responses, k \in SomeUuids : AUTH_only(u, r, k)

SpecTraffic == InitTraffic /\ [][NextTraffic]_vars

\* The request generators on every state of the random module.
InitGenerators ==
    /\ Environment(AllConfigured(TRUE))
    /\ Loaded
    /\ phase = "init"
    /\ rng \in 0 .. RngModulus - 1

NextGenerators ==
    \E g \in Generators, k \in 0 .. MaxUuid : GenerateRequest(g, k)

SpecGenerators == InitGenerators /\ [][NextGenerators]_vars

----------------------------------------------------------------------------
(* Properties *)

\* The callers that have got a value back from _get_shared_token.
Returned(p) ==
    IF p = Hook THEN pc[p] \in {"L319", "done", "raised"} ELSE pc[p] = "ready"

C2_Memoized ==
    cached_token # NoneValue =>
        /\ ~NO_AUTH
        /\ token_requests = 1
        /\ token_reply.kind = "response"
        /\ cached_token = Get(token_reply.body.fields, "access_token", NoneValue)
        /\ \A p \in Procs : Returned(p) => ret[p] = cached_token

\* C2 witness: the hook fetched the token, then its call at line 304 and the
\* calls of two users returned it.
C2_Witness ==
    /\ cached_token = "tok2"
    /\ pc[Hook] = "done"
    /\ \A u \in 1 .. 2 : pc[u] = "ready" /\ ret[u] = "tok2"

\* C3: with NO_AUTH no request goes to the identity endpoint, the cache
\* stays None and no request (bulk-load, evaluation of any user class)
\* carries an Authorization header.
C3_NoAuth ==
    NO_AUTH =>
        /\ token_requests = 0
        /\ token_reply = NoReply
        /\ awaiting = {}
        /\ cached_token = NoneValue
        /\ \A p \in Procs : "Authorization" \notin DOMAIN headers[p]
        /\ "Authorization" \notin DOMAIN last_request.headers

\* C3 witness: a no-auth run that sent the bulk-load request and an
\* evaluation request of a SteadyStateUser.
C3_Witness ==
    /\ NO_AUTH
    /\ preload_requests = 1
    /\ last_request.task = "AUTH_only"
    /\ DOMAIN last_request.headers = {"Content-Type"}

\* The replies the token fetch fails on: a status outside 2xx, a transport
\* error, a body without a non-empty access_token.
TokenReplyFails(reply) ==
    \/ reply.kind \in {"HTTPError", "URLError"}
    \/ reply.body.type # "object"
    \/ Get(reply.body.fields, "access_token", "") = ""

\* C4: in JWT mode a missing Auth0 setting or a failing token reply ends the
\* process with exit code 1, the cache still None, the hook not past its
\* token fetch (no bulk-load request, no warning), the token request not
\* repeated and no evaluation request sent; with a setting missing no token
\* request is sent at all.
C4_FailFast ==
    /\ exited =>
          /\ exit_code = 1
          /\ cached_token = NoneValue
          /\ token_requests <= 1
          /\ preload_requests = 0
          /\ ~warned
          /\ eval_requests = 0
          /\ \A u \in Users : pc[u] = "unspawned"
    /\ (~NO_AUTH /\ ~Configured /\ phase # "init") => (exited /\ token_requests = 0)
    /\ (token_reply # NoReply /\ TokenReplyFails(token_reply)) => exited

\* C4 witness: the identity endpoint answered the one token request with an
\* HTTP error and the process exited.
C4_Witness ==
    /\ exited
    /\ token_requests = 1
    /\ token_reply.kind = "HTTPError"

\* The replies the bulk-load fails with: a connection error or timeout, a
\* status outside 2xx, a body that does not decode.
PreloadFails(reply) ==
    reply.kind \in {"HTTPError", "URLError"} \/ reply.body.type = "not_json"

\* C7: on_test_start sends one bulk-load request, once the credential is
\* resolved and before any user exists; whatever the reply, the hook returns,
\* the run reaches steady state with the cache as it was, and a failing
\* reply is logged as a warning.
C7_Preload ==
    /\ preload_requests <= 1
    /\ preload_requests = 1 =>
          /\ NO_AUTH \/ cached_token # NoneValue
          /\ ret[Hook] = cached_token
    /\ (eval_requests > 0 \/ \E u \in Users : pc[u] # "unspawned") =>
          (preload_requests = 1 /\ pc[Hook] = "done")
    /\ preload_reply # NoReply =>
          /\ pc[Hook] = "done"
          /\ ~exited
          /\ phase \in {"running", "stopped"}
          /\ PreloadFails(preload_reply) => warned

\* C7 witness: the bulk-load got an HTTP error and the users send requests.
C7_Witness ==
    /\ preload_reply.kind = "HTTPError"
    /\ warned
    /\ phase = "running"
    /\ eval_requests > 0

EngineModeOf(response) == Get(response.body.json.fields, "engine_mode", "NORMAL")

ReportsDegraded(response) ==
    /\ response.status_code = 200
    /\ response.body.json.type = "object"
    /\ EngineModeOf(response) \in {"FAIL_OPEN", "DEGRADED"}

\* C5: what _handle_response makes of a response: 200 with engine_mode
\* NORMAL or absent is a success; 200 with FAIL_OPEN or DEGRADED is a failure
\* "<mode>: <engine_error_code>" (UNKNOWN without a code); 200 with a body
\* that is not JSON is a failure; 401 and 403 are failures with their hints;
\* any other status is a failure with the status and the first 100
\* characters of the body; no other status than 200 and no degraded body is
\* a success.
C5_Classification ==
    last_request.catch_response =>
        LET r == last_response
            o == last_outcome
            json == r.body.json
            failed == o.reported = "failure" /\ o.failure_calls = 1 /\ o.success_calls = 0
        IN  /\ (r.status_code = 200 /\ json.type = "object" /\ EngineModeOf(r) = "NORMAL") =>
                (o.reported = "success" /\ o.success_calls = 1 /\ o.failure_calls = 0)
            /\ ReportsDegraded(r) =>
                /\ failed
                /\ o.message = <<EngineModeOf(r), ": ",
                                 IF "engine_error_code" \in DOMAIN json.fields
                                 THEN json.fields["engine_error_code"] ELSE "UNKNOWN">>
            /\ (r.status_code = 200 /\ json.type = "not_json") =>
                (failed /\ o.message = <<"Invalid JSON response">>)
            /\ r.status_code = 401 =>
                (failed /\ o.message = <<"Auth failed - check JWT_TOKEN or use NO_AUTH=true">>)
            /\ r.status_code = 403 =>
                (failed /\ o.message = <<"Forbidden - check scopes">>)
            /\ r.status_code \notin {200, 401, 403} =>
                /\ failed
                /\ Len(o.message) = 3 + Min(100, Len(r.body.text))
                /\ SubSeq(o.message, 1, 3) = <<"Status ", ToString(r.status_code), ": ">>
                /\ \A i \in 1 .. Len(o.message) - 3 : o.message[3 + i] = r.body.text[i]
            /\ (r.status_code # 200 \/ ReportsDegraded(r)) => o.reported # "success"

\* C5 witness: a DEGRADED answer without error code was marked a failure.
C5_Witness ==
    /\ last_request.catch_response
    /\ last_response.status_code = 200
    /\ last_response.body.json = JsonObject("engine_mode" :> "DEGRADED")
    /\ last_outcome.message = <<"DEGRADED", ": ", "UNKNOWN">>

\* C6: whatever class and task sent the request, a 200 response reporting
\* FAIL_OPEN or DEGRADED is recorded as a failure.
C6_AllVariantsClassify ==
    (last_request.task # "none" /\ ReportsDegraded(last_response)) =>
        last_outcome.reported = "failure"

\* C10: for every response handed to _handle_response exactly one of
\* response.success() and response.failure() is called, once, and no
\* exception leaves the task.
C10_TotalClassification ==
    last_request.catch_response =>
        /\ last_outcome.success_calls + last_outcome.failure_calls = 1
        /\ last_outcome.raised = ""

\* C8: in an AUTH or velocity-burst payload card_network is VISA exactly when
\* card_bin starts with 4, MASTERCARD exactly when it starts with 5, AMEX
\* otherwise, and it is the network of the pool the bin came from.
C8_Network ==
    generator \in {"AUTH", "velocity_burst"} =>
        LET bin == payload.card_bin
            network == payload.card_network
        IN  /\ network = "VISA" <=> bin[1] = "4"
            /\ network = "MASTERCARD" <=> bin[1] = "5"
            /\ network = "AMEX" <=> bin[1] \notin {"4", "5"}
            /\ bin \in Range(visa_bins) => network = "VISA"
            /\ bin \in Range(mc_bins) => network = "MASTERCARD"
            /\ bin \in Range(amex_bins) => network = "AMEX"
            /\ bin \in Range(visa_bins) \cup Range(mc_bins) \cup Range(amex_bins)

\* C8 witness: a velocity-burst payload with an American Express bin.
C8_Witness ==
    /\ generator = "velocity_burst"
    /\ payload.card_bin = <<"3", "7", "0", "0", "0", "0">>
    /\ payload.card_network = "AMEX"

\* The fields every payload draws from a module-level pool, card_hash apart.
PoolFieldsOK ==
    /\ payload.currency \in Range(CURRENCIES)
    /\ payload.country_code \in Range(COUNTRIES)
    /\ payload.merchant_category_code \in Range(MERCHANT_CATEGORIES)
    /\ "merchant_category" \in DOMAIN payload =>
          payload.merchant_category \in Range(MERCHANT_CATEGORIES)
    /\ "transaction_type" \in DOMAIN payload =>
          payload.transaction_type \in Range(TRANSACTION_TYPES)
    /\ "entry_mode" \in DOMAIN payload => payload.entry_mode \in Range(ENTRY_MODES)

\* The amount, in cents, lies in the range of its generator.
AmountOK ==
    /\ generator = "AUTH" => payload.amount \in 1000 .. 200000
    /\ generator = "MONITORING" => payload.amount \in 1000 .. 50000
    /\ generator = "velocity_burst" => payload.amount \in 5000 .. 20000

\* A velocity-burst payload is the AUTH payload of the same draws in every
\* field but card_hash and amount.
VelocityKeepsAuth ==
    generator = "velocity_burst" =>
        /\ DOMAIN payload = DOMAIN generate_AUTH_request(gen_seed, gen_uuid)
        /\ \A k \in DOMAIN payload \ {"card_hash", "amount"} :
              payload[k] = generate_AUTH_request(gen_seed, gen_uuid)[k]

\* C9 as stated: in every generated payload currency, country_code, merchant
\* category, transaction_type, entry_mode and card_hash are members of their
\* pools, the amount lies in the range of its generator, and a velocity-burst
\* payload differs from an AUTH payload in card_hash and amount only.
C9_AllFromPools ==
    generator # "none" =>
        /\ PoolFieldsOK
        /\ payload.card_hash \in Range(CARD_HASHES)
        /\ AmountOK
        /\ VelocityKeepsAuth

\* C9 amended: as stated, except that card_hash is a member of CARD_HASHES in
\* AUTH and MONITORING payloads only; in a velocity-burst payload it is the
\* fixed "velocity_test_card", which is not in the pool.
C9_FromPoolsExceptVelocityCard ==
    generator # "none" =>
        /\ PoolFieldsOK
        /\ generator \in {"AUTH", "MONITORING"} => payload.card_hash \in Range(CARD_HASHES)
        /\ generator = "velocity_burst" =>
              (payload.card_hash = "velocity_test_card"
               /\ payload.card_hash \notin Range(CARD_HASHES))
        /\ AmountOK
        /\ VelocityKeepsAuth

\* C9 witness: a velocity-burst payload at the low end of its amount range.
C9_Witness ==
    /\ generator = "velocity_burst"
    /\ payload.card_hash = "velocity_test_card"
    /\ payload.amount = 5000

====
